---- MODULE Spec2Model ----
(***************************************************************************)
(* Journey planner of ppy-hm (src/main.go): nearest-vehicle selection,     *)
(* parking-zone membership, per-model cost computation with pause penalty  *)
(* and day cap, and selection of the cheapest plan.                        *)
(*                                                                         *)
(* Number representation.  The program computes in float64; the model      *)
(* computes the same quantities exactly, as integers over fixed            *)
(* denominators:                                                           *)
(*   - coordinates lie on one meridian, Lat = k latitude steps, where one  *)
(*     step is 1.25 km of great-circle distance (for equal longitudes the  *)
(*     haversine formula reduces to R * |dLat|);                           *)
(*   - distances are in quarter kilometres (KmDenom);                      *)
(*   - pause minutes are in half minutes (MinDenom), so that pause * 1.5   *)
(*     is exact; walking and driving minutes are whole minutes;            *)
(*   - money amounts (the float64 results of x * price / priceUnitFactor)  *)
(*     count units of 1 / MoneyDenom = 1 / (priceUnitFactor * KmDenom).    *)
(* float64 rounding is not modelled.                                       *)
(***************************************************************************)
EXTENDS Integers, Sequences, FiniteSets

\* ---------------------------------------------------------------- bounds
MaxPos == 2
MaxLegs == 2
MaxPause == 1
MaxFleet == 2
MaxZoneItems == 1

\* ------------------------------------------------------ program constants
walkingSpeedKmh == 5
drivingSpeedKmh == 25
freeBookingMinutes == 15
priceUnitFactor == 1000

\* --------------------------------------------------------- representation
StepQuarterKm == 5
KmDenom == 4
MinDenom == 2

MoneyDenom == priceUnitFactor * KmDenom

\* quantity * price / priceUnitFactor for the quantity num/den, in money units.
charge(num, den, price) == (num * price * MoneyDenom) \div (den * priceUnitFactor)

Max(a, b) == IF a > b THEN a ELSE b
Abs(a) == IF a < 0 THEN 0 - a ELSE a

\* A nil pointer (*Vehicle, *GeoZone, *JourneyPlan, *PricingResponse).
Nil == [nil |-> TRUE]

\* ------------------------------------------------------------ input sets
Positions == 0..MaxPos
Locations == [Lat : Positions]

TripLegs == [StartLocation : Locations, EndLocation : Locations,
             PauseMinutes : 0..MaxPause]

RECURSIVE SeqsUpTo(_, _)
SeqsUpTo(S, n) ==
    IF n = 0 THEN {<<>>}
    ELSE LET shorter == SeqsUpTo(S, n - 1)
         IN  shorter \cup {Append(s, x) : s \in {t \in shorter : Len(t) = n - 1}, x \in S}

Journeys == [Legs : SeqsUpTo(TripLegs, MaxLegs)]

ModelTypes == {"car", "scooter"}
UpstreamVehicles == [LocationLatitude : Positions, Model : [Type : ModelTypes]]
UpstreamFleets == SeqsUpTo(UpstreamVehicles, MaxFleet)
Cars == {v \in UpstreamVehicles : v.Model.Type = "car"}
CarFleets == SeqsUpTo(Cars, MaxFleet)

\* Geometries: a polygon is represented by the set of positions that
\* planar.PolygonContains reports as inside it.
Polygon(inside) == [Type |-> "Polygon", Polygons |-> <<inside>>]
MultiPolygon(parts) == [Type |-> "MultiPolygon", Polygons |-> parts]
LineString == [Type |-> "LineString", Polygons |-> <<>>]

ZoneItems ==
    { [GeofencingType |-> "parking", ModelType |-> "car", Geom |-> Polygon({1, 2})],
      [GeofencingType |-> "parking", ModelType |-> "car",
       Geom |-> MultiPolygon(<<{0}, {2}>>)],
      [GeofencingType |-> "parking", ModelType |-> "scooter",
       Geom |-> Polygon({0, 1, 2})],
      [GeofencingType |-> "no_parking", ModelType |-> "car",
       Geom |-> Polygon({0, 1, 2})],
      [GeofencingType |-> "parking", ModelType |-> "car", Geom |-> LineString] }

\* A decoded geozone: a non-nil pointer to a (possibly empty) item list.
GeoZones == [Items : SeqsUpTo(ZoneItems, MaxZoneItems)]

Tariff(type, unlock, minute, pause, km, book, cap, included) ==
    [Type |-> type, UnlockFee |-> unlock, MinutePrice |-> minute,
     PauseUnitPrice |-> pause, KilometerPrice |-> km, BookUnitPrice |-> book,
     DayCapPrice |-> cap, IncludedKilometers |-> included]

PerMinuteTariffs == { Tariff("minute", 1000, 300, 200, 0, 100, 6000, 0),
                      Tariff("hour", 1000, 300, 200, 900, 100, 6000, 0) }
PerKilometerTariffs == { Tariff("kilometer", 1000, 0, 200, 900, 100, 6000, 1),
                         Tariff("kilometer", 500, 300, 400, 1200, 100, 2500, 0) }
SmartTariffs == { Tariff("smart", 1000, 100, 200, 400, 100, 6000, 1),
                  Tariff("minute", 1000, 300, 200, 900, 100, 1500, 0) }

PricingResponses == [PricingPerMinute : PerMinuteTariffs,
                     PricingPerKilometer : PerKilometerTariffs,
                     SmartPricing : SmartTariffs]

\* The (pricing model, model name) pairs calculateCostForModel is called with.
ModelCalls == (PerMinuteTariffs \X {"per-minute"})
              \cup (PerKilometerTariffs \X {"per-kilometer"})
              \cup (SmartTariffs \X {"smart"})

\* --------------------------------------------------------------- geodesy
calculateDistance(lat1, lat2) == StepQuarterKm * Abs(lat2 - lat1)

calculateWalkingTime(fromLocation, toLocation) ==
    (calculateDistance(fromLocation.Lat, toLocation.Lat) * 60)
        \div (walkingSpeedKmh * KmDenom)

calculateDrivingTime(fromLocation, toLocation) ==
    (calculateDistance(fromLocation.Lat, toLocation.Lat) * 60)
        \div (drivingSpeedKmh * KmDenom)

vehicleToLocation(vehicle) == [Lat |-> vehicle.LocationLatitude]

\* ------------------------------------------------------- fleet filtering
fetchVehiclesKeepsAll(upstream) == upstream

fetchVehicles(upstream) == SelectSeq(upstream, LAMBDA v : v.Model.Type = "car")

\* ---------------------------------------------------- geofence membership
PolygonContains(polygon, location) == location.Lat \in polygon

GeomContains(geom, location) ==
    CASE geom.Type = "Polygon" -> PolygonContains(geom.Polygons[1], location)
      [] geom.Type = "MultiPolygon" ->
            \E k \in 1..Len(geom.Polygons) : PolygonContains(geom.Polygons[k], location)
      [] OTHER -> FALSE

isInParkingZoneAnyFencing(location, geozone) ==
    IF geozone = Nil THEN FALSE
    ELSE \E k \in 1..Len(geozone.Items) :
            /\ geozone.Items[k].ModelType = "car"
            /\ GeomContains(geozone.Items[k].Geom, location)

isInParkingZoneNilIsEverywhere(location, geozone) ==
    IF geozone = Nil THEN TRUE
    ELSE \E k \in 1..Len(geozone.Items) :
            /\ geozone.Items[k].GeofencingType = "parking"
            /\ geozone.Items[k].ModelType = "car"
            /\ GeomContains(geozone.Items[k].Geom, location)

isInParkingZone(location, geozone) ==
    IF geozone = Nil THEN FALSE
    ELSE \E k \in 1..Len(geozone.Items) :
            /\ geozone.Items[k].GeofencingType = "parking"
            /\ geozone.Items[k].ModelType = "car"
            /\ GeomContains(geozone.Items[k].Geom, location)

\* ------------------------------------------------------ vehicle selector
\* The scan of findClosestVehicle from index i on, with the running
\* minimum; minDistance = -1 stands for +Inf.
RECURSIVE closestScan(_, _, _, _, _)
closestScan(location, vehicles, i, minDistance, closest) ==
    IF i > Len(vehicles) THEN closest
    ELSE LET distance == calculateDistance(location.Lat, vehicles[i].LocationLatitude)
         IN  IF minDistance = -1 \/ distance < minDistance
             THEN closestScan(location, vehicles, i + 1, distance, vehicles[i])
             ELSE closestScan(location, vehicles, i + 1, minDistance, closest)

RECURSIVE closestScanLastWins(_, _, _, _, _)
closestScanLastWins(location, vehicles, i, minDistance, closest) ==
    IF i > Len(vehicles) THEN closest
    ELSE LET distance == calculateDistance(location.Lat, vehicles[i].LocationLatitude)
         IN  IF minDistance = -1 \/ distance <= minDistance
             THEN closestScanLastWins(location, vehicles, i + 1, distance, vehicles[i])
             ELSE closestScanLastWins(location, vehicles, i + 1, minDistance, closest)

findClosestVehicleLastWins(location, vehicles) ==
    IF Len(vehicles) = 0 THEN Nil
    ELSE closestScanLastWins(location, vehicles, 1, -1, Nil)

findClosestVehicle(location, vehicles) ==
    IF Len(vehicles) = 0 THEN Nil
    ELSE closestScan(location, vehicles, 1, -1, Nil)

\* ----------------------------------------------------- pricing evaluator
\* Pause minutes (in half minutes) one leg adds to totalPauseMinutes.
legPauseMinutesNoPenalty(leg, geozone) ==
    IF leg.PauseMinutes > 0 THEN leg.PauseMinutes * MinDenom ELSE 0

legPauseMinutes(leg, geozone) ==
    IF leg.PauseMinutes > 0
    THEN IF isInParkingZone(leg.EndLocation, geozone)
         THEN leg.PauseMinutes * MinDenom
         ELSE (leg.PauseMinutes * MinDenom * 3) \div 2
    ELSE 0

\* The loop over journey.Legs from leg i on; acc holds the running totals.
RECURSIVE legLoop(_, _, _, _, _)
legLoop(legs, i, currentLocation, geozone, acc) ==
    IF i > Len(legs) THEN acc
    ELSE LET leg == legs[i]
         IN  legLoop(legs, i + 1, leg.EndLocation, geozone,
               [totalBookingMinutes |->
                    acc.totalBookingMinutes
                      + calculateWalkingTime(currentLocation, leg.StartLocation),
                totalTravelMinutes |->
                    acc.totalTravelMinutes
                      + calculateDrivingTime(leg.StartLocation, leg.EndLocation),
                totalDistanceKm |->
                    acc.totalDistanceKm
                      + calculateDistance(leg.StartLocation.Lat, leg.EndLocation.Lat),
                totalPauseMinutes |->
                    acc.totalPauseMinutes + legPauseMinutes(leg, geozone)])

\* The end-of-journey check: TRUE when the pricing model is rejected.
rejectsFinalLocationNever(journey, geozone) == FALSE

rejectsFinalLocationAnyLeg(journey, geozone) ==
    /\ geozone # Nil
    /\ \E k \in 1..Len(journey.Legs) :
          ~isInParkingZone(journey.Legs[k].EndLocation, geozone)

rejectsFinalLocationEmptyZone(journey, geozone) ==
    /\ geozone # Nil
    /\ Len(geozone.Items) > 0
    /\ ~isInParkingZone(journey.Legs[Len(journey.Legs)].EndLocation, geozone)

rejectsFinalLocation(journey, geozone) ==
    LET finalLocation == journey.Legs[Len(journey.Legs)].EndLocation
    IN  geozone # Nil /\ ~isInParkingZone(finalLocation, geozone)

bookingCostNoFreeMinutes(pricing, totalBookingMinutes) ==
    charge(totalBookingMinutes, 1, pricing.BookUnitPrice)

bookingCost(pricing, totalBookingMinutes) ==
    charge(Max(0, totalBookingMinutes - freeBookingMinutes), 1, pricing.BookUnitPrice)

\* The switch on pricing.Type.
travelCostSmartIsCheaper(pricing, totalTravelMinutes, totalDistanceKm) ==
    LET minuteCost == charge(totalTravelMinutes, 1, pricing.MinutePrice)
        includedKm == pricing.IncludedKilometers * KmDenom
        chargeableKm == Max(0, totalDistanceKm - includedKm)
        kmCost == charge(chargeableKm, KmDenom, pricing.KilometerPrice)
    IN  CASE pricing.Type = "minute" -> minuteCost
          [] pricing.Type = "kilometer" -> kmCost
          [] pricing.Type = "smart" -> IF minuteCost < kmCost THEN minuteCost ELSE kmCost
          [] OTHER -> 0

travelCost(pricing, totalTravelMinutes, totalDistanceKm) ==
    LET minuteCost == charge(totalTravelMinutes, 1, pricing.MinutePrice)
        includedKm == pricing.IncludedKilometers * KmDenom
        chargeableKm == Max(0, totalDistanceKm - includedKm)
        kmCost == charge(chargeableKm, KmDenom, pricing.KilometerPrice)
    IN  CASE pricing.Type = "minute" -> minuteCost
          [] pricing.Type = "kilometer" -> kmCost
          [] pricing.Type = "smart" -> minuteCost + kmCost
          [] OTHER -> 0

pauseCost(pricing, totalPauseMinutes) ==
    charge(totalPauseMinutes, MinDenom, pricing.PauseUnitPrice)

\* The day cap applied to the sum of the four cost components.
applyDayCapAsFloor(totalCost, dayCapCost) ==
    IF totalCost < dayCapCost THEN dayCapCost ELSE totalCost

applyDayCap(totalCost, dayCapCost) ==
    IF totalCost > dayCapCost THEN dayCapCost ELSE totalCost

calculateCostForModel(journey, vehicle, pricing, modelName, geozone) ==
    IF Len(journey.Legs) = 0 THEN Nil
    ELSE
      LET vehicleLocation == vehicleToLocation(vehicle)
          walkingTime ==
              calculateWalkingTime(journey.Legs[1].StartLocation, vehicleLocation)
          totals == legLoop(journey.Legs, 1, vehicleLocation, geozone,
                            [totalBookingMinutes |-> 0, totalTravelMinutes |-> 0,
                             totalDistanceKm |-> 0, totalPauseMinutes |-> 0])
      IN  IF rejectsFinalLocation(journey, geozone) THEN Nil
          ELSE
            LET breakdown ==
                  [UnlockFee |-> charge(1, 1, pricing.UnlockFee),
                   BookingCost |-> bookingCost(pricing, totals.totalBookingMinutes),
                   TravelCost |-> travelCost(pricing, totals.totalTravelMinutes,
                                             totals.totalDistanceKm),
                   PauseCost |-> pauseCost(pricing, totals.totalPauseMinutes),
                   WalkingTime |-> walkingTime]
                totalCost == breakdown.UnlockFee + breakdown.BookingCost
                               + breakdown.TravelCost + breakdown.PauseCost
                dayCapCost == charge(1, 1, pricing.DayCapPrice)
            IN  [Vehicle |-> vehicle,
                 Journey |-> journey,
                 TotalCost |-> applyDayCap(totalCost, dayCapCost),
                 CostBreakdown |-> breakdown,
                 PricingModel |-> modelName]

\* -------------------------------------------------------- plan optimizer
evaluateModelUnknownTypeRejected(journey, vehicle, pricing, modelName, geozone) ==
    [pricing |-> pricing, modelName |-> modelName,
     plan |-> IF pricing.Type \notin {"minute", "kilometer", "smart"} THEN Nil
              ELSE calculateCostForModel(journey, vehicle, pricing, modelName, geozone)]

\* One call of calculateCostForModel made by calculateCost, with its result.
evaluateModel(journey, vehicle, pricing, modelName, geozone) ==
    [pricing |-> pricing, modelName |-> modelName,
     plan |-> calculateCostForModel(journey, vehicle, pricing, modelName, geozone)]

\* The three evaluations of calculateCost, in call order, nil results kept.
evaluateModels(journey, vehicle, pricing, geozone) ==
    << evaluateModel(journey, vehicle, pricing.PricingPerMinute, "per-minute", geozone),
       evaluateModel(journey, vehicle, pricing.PricingPerKilometer, "per-kilometer",
                     geozone),
       evaluateModel(journey, vehicle, pricing.SmartPricing, "smart", geozone) >>

\* The plans slice: the non-nil results, in call order.
RECURSIVE appendPlans(_, _, _)
appendPlans(evaluations, i, plans) ==
    IF i > Len(evaluations) THEN plans
    ELSE IF evaluations[i].plan # Nil
         THEN appendPlans(evaluations, i + 1, Append(plans, evaluations[i].plan))
         ELSE appendPlans(evaluations, i + 1, plans)

\* The scan for the cheapest plan from index i on.
RECURSIVE cheapestScan(_, _, _)
cheapestScan(plans, i, cheapest) ==
    IF i > Len(plans) THEN cheapest
    ELSE IF plans[i].TotalCost < cheapest.TotalCost
         THEN cheapestScan(plans, i + 1, plans[i])
         ELSE cheapestScan(plans, i + 1, cheapest)

RECURSIVE cheapestScanLastWins(_, _, _)
cheapestScanLastWins(plans, i, cheapest) ==
    IF i > Len(plans) THEN cheapest
    ELSE IF plans[i].TotalCost <= cheapest.TotalCost
         THEN cheapestScanLastWins(plans, i + 1, plans[i])
         ELSE cheapestScanLastWins(plans, i + 1, cheapest)

selectCheapestLastWins(plans) == cheapestScanLastWins(plans, 2, plans[1])

selectCheapest(plans) == cheapestScan(plans, 2, plans[1])

NoError == <<>>
NoPlansError == <<"[calculateCost] no valid pricing plans found">>

\* calculateCost's return values, given the plans slice.
costResultNeverFails(plans) ==
    IF Len(plans) = 0
    THEN [plan |-> Nil, err |-> NoError]
    ELSE [plan |-> selectCheapest(plans), err |-> NoError]

costResult(plans) ==
    IF Len(plans) = 0
    THEN [plan |-> Nil, err |-> NoPlansError]
    ELSE [plan |-> selectCheapest(plans), err |-> NoError]

calculateCost(journey, vehicle, pricing, geozone) ==
    costResult(appendPlans(evaluateModels(journey, vehicle, pricing, geozone), 1, <<>>))

\* ---------------------------------------------------------- state machine
VARIABLES
    pc,          \* position of the running operation: idle, fetched, selected,
                 \* priced, zoned, done
    op,          \* the operation that was invoked
    journey,     \* the journey argument
    vehicles,    \* planJourney's fleet / findClosestVehicle's argument
    location,    \* the location argument of a direct call
    vehicle,     \* *closestVehicle, or the vehicle argument of a direct call
    pricing,     \* the fetched *PricingResponse
    geozone,     \* the *GeoZone in use (Nil when absent)
    evaluated,   \* the calls of calculateCostForModel made, with their results
    cost,        \* calculateCost's return values
    ret,         \* planJourney's return values
    inZone,      \* isInParkingZone's return value in a direct call
    calls        \* the steps the operation has performed

vars == <<pc, op, journey, vehicles, location, vehicle, pricing, geozone,
          evaluated, cost, ret, inZone, calls>>

Init ==
    /\ pc = "idle"
    /\ op = "none"
    /\ journey = Nil
    /\ vehicles = <<>>
    /\ location = Nil
    /\ vehicle = Nil
    /\ pricing = Nil
    /\ geozone = Nil
    /\ evaluated = <<>>
    /\ cost = Nil
    /\ ret = Nil
    /\ inZone = FALSE
    /\ calls = {}

Fail(message) == [plan |-> Nil, err |-> message]
Wrap(message, err) == <<message>> \o err

\* planJourney, lines 534-537: the fleet fetch succeeds; fetchVehicles
\* returns the cars of the upstream list.
FetchVehiclesOK ==
    /\ pc = "idle"
    /\ \E j \in Journeys, upstream \in UpstreamFleets :
          /\ journey' = j
          /\ vehicles' = fetchVehicles(upstream)
    /\ op' = "planJourney"
    /\ pc' = "fetched"
    /\ calls' = {"fetchVehicles"}
    /\ UNCHANGED <<location, vehicle, pricing, geozone, evaluated, cost, ret, inZone>>

\* planJourney, lines 534-537: the fleet fetch fails.
FetchVehiclesFail ==
    /\ pc = "idle"
    /\ \E j \in Journeys : journey' = j
    /\ op' = "planJourney"
    /\ pc' = "done"
    /\ calls' = {"fetchVehicles", "fetchVehicles failed"}
    /\ ret' = Fail(<<"failed to fetch vehicles", "[fetchVehicles]">>)
    /\ UNCHANGED <<vehicles, location, vehicle, pricing, geozone, evaluated, cost, inZone>>

SelectVehicleNoFleetCheck ==
    /\ pc = "fetched"
    /\ IF Len(journey.Legs) = 0
       THEN /\ ret' = Fail(<<"[planJourney] journey has no legs">>)
            /\ pc' = "done"
            /\ UNCHANGED <<vehicle, calls>>
       ELSE LET closestVehicle ==
                    findClosestVehicle(journey.Legs[1].StartLocation, vehicles)
            IN  /\ calls' = calls \cup {"findClosestVehicle"}
                /\ vehicle' = closestVehicle
                /\ IF closestVehicle = Nil
                   THEN /\ ret' = Fail(<<"[planJourney] no vehicle found">>)
                        /\ pc' = "done"
                   ELSE /\ pc' = "selected"
                        /\ UNCHANGED ret
    /\ UNCHANGED <<op, journey, vehicles, location, pricing, geozone, evaluated,
                   cost, inZone>>

\* planJourney, lines 539-552: the emptiness checks and the vehicle selection.
SelectVehicle ==
    /\ pc = "fetched"
    /\ IF Len(vehicles) = 0
       THEN /\ ret' = Fail(<<"[planJourney] no vehicles available">>)
            /\ pc' = "done"
            /\ UNCHANGED <<vehicle, calls>>
       ELSE IF Len(journey.Legs) = 0
       THEN /\ ret' = Fail(<<"[planJourney] journey has no legs">>)
            /\ pc' = "done"
            /\ UNCHANGED <<vehicle, calls>>
       ELSE LET closestVehicle ==
                    findClosestVehicle(journey.Legs[1].StartLocation, vehicles)
            IN  /\ calls' = calls \cup {"findClosestVehicle"}
                /\ vehicle' = closestVehicle
                /\ IF closestVehicle = Nil
                   THEN /\ ret' = Fail(<<"[planJourney] no vehicle found">>)
                        /\ pc' = "done"
                   ELSE /\ pc' = "selected"
                        /\ UNCHANGED ret
    /\ UNCHANGED <<op, journey, vehicles, location, pricing, geozone, evaluated,
                   cost, inZone>>

\* planJourney, lines 554-562: the pricing fetch succeeds.  The fleet is
\* not read after this point and is released.
FetchPricingOK ==
    /\ pc = "selected"
    /\ \E p \in PricingResponses : pricing' = p
    /\ vehicles' = <<>>
    /\ pc' = "priced"
    /\ calls' = calls \cup {"fetchPricing"}
    /\ UNCHANGED <<op, journey, location, vehicle, geozone, evaluated, cost, ret, inZone>>

\* planJourney, lines 554-562: the pricing fetch fails.
FetchPricingFail ==
    /\ pc = "selected"
    /\ vehicles' = <<>>
    /\ pc' = "done"
    /\ calls' = calls \cup {"fetchPricing", "fetchPricing failed"}
    /\ ret' = Fail(<<"failed to fetch pricing", "[fetchPricing]">>)
    /\ UNCHANGED <<op, journey, location, vehicle, pricing, geozone, evaluated, cost,
                   inZone>>

\* planJourney, lines 564-573: the geozone fetch succeeds with a decoded
\* (non-nil) geozone.
FetchGeoZoneOK ==
    /\ pc = "priced"
    /\ \E g \in GeoZones : geozone' = g
    /\ pc' = "zoned"
    /\ calls' = calls \cup {"fetchGeoZone"}
    /\ UNCHANGED <<op, journey, vehicles, location, vehicle, pricing, evaluated, cost,
                   ret, inZone>>

FetchGeoZoneFailFatal ==
    /\ pc = "priced"
    /\ pc' = "done"
    /\ calls' = calls \cup {"fetchGeoZone", "warning"}
    /\ ret' = Fail(<<"failed to fetch geozone", "[fetchGeoZone]">>)
    /\ UNCHANGED <<op, journey, vehicles, location, vehicle, pricing, geozone,
                   evaluated, cost, inZone>>

\* planJourney, lines 564-573: the geozone fetch fails; a warning is
\* printed and planning goes on with geozone = nil.
FetchGeoZoneFail ==
    /\ pc = "priced"
    /\ geozone' = Nil
    /\ pc' = "zoned"
    /\ calls' = calls \cup {"fetchGeoZone", "warning"}
    /\ UNCHANGED <<op, journey, vehicles, location, vehicle, pricing, evaluated, cost,
                   ret, inZone>>

\* planJourney, lines 575-580: calculateCost and the return.
CalculateCost ==
    /\ pc = "zoned"
    /\ evaluated' = evaluateModels(journey, vehicle, pricing, geozone)
    /\ cost' = calculateCost(journey, vehicle, pricing, geozone)
    /\ ret' = IF cost'.err # NoError
              THEN Fail(Wrap("failed to calculate cost", cost'.err))
              ELSE [plan |-> cost'.plan, err |-> NoError]
    /\ pc' = "done"
    /\ calls' = calls \cup {"calculateCost"}
    /\ UNCHANGED <<op, journey, vehicles, location, vehicle, pricing, geozone, inZone>>

\* A direct call of findClosestVehicle, as in TestFindClosestVehicle.
CallFindClosestVehicle ==
    /\ pc = "idle"
    /\ \E l \in Locations, fleet \in CarFleets :
          /\ location' = l
          /\ vehicles' = fleet
          /\ vehicle' = findClosestVehicle(l, fleet)
    /\ op' = "findClosestVehicle"
    /\ pc' = "done"
    /\ calls' = {"findClosestVehicle"}
    /\ UNCHANGED <<journey, pricing, geozone, evaluated, cost, ret, inZone>>

\* A direct call of isInParkingZone.
CallIsInParkingZone ==
    /\ pc = "idle"
    /\ \E l \in Locations, g \in GeoZones \cup {Nil} :
          /\ location' = l
          /\ geozone' = g
          /\ inZone' = isInParkingZone(l, g)
    /\ op' = "isInParkingZone"
    /\ pc' = "done"
    /\ calls' = {"isInParkingZone"}
    /\ UNCHANGED <<journey, vehicles, vehicle, pricing, evaluated, cost, ret>>

\* A direct call of calculateCostForModel.
CallCalculateCostForModel ==
    /\ pc = "idle"
    /\ \E j \in Journeys, v \in Cars, call \in ModelCalls, g \in GeoZones \cup {Nil} :
          /\ journey' = j
          /\ vehicle' = v
          /\ geozone' = g
          /\ evaluated' = <<evaluateModel(j, v, call[1], call[2], g)>>
    /\ op' = "calculateCostForModel"
    /\ pc' = "done"
    /\ calls' = {"calculateCostForModel"}
    /\ UNCHANGED <<vehicles, location, pricing, cost, ret, inZone>>

Next ==
    \/ FetchVehiclesOK
    \/ FetchVehiclesFail
    \/ SelectVehicle
    \/ FetchPricingOK
    \/ FetchPricingFail
    \/ FetchGeoZoneOK
    \/ FetchGeoZoneFail
    \/ CalculateCost
    \/ CallFindClosestVehicle
    \/ CallIsInParkingZone
    \/ CallCalculateCostForModel

Spec == Init /\ [][Next]_vars

\* ================================================================ claims
\* Vocabulary of the claims.
Evaluations == 1..Len(evaluated)
Accepted == {i \in Evaluations : evaluated[i].plan # Nil}
NonEmptyJourney == journey # Nil /\ Len(journey.Legs) > 0
FinalLocation == journey.Legs[Len(journey.Legs)].EndLocation
CostCalled == cost # Nil

\* C1: calculateCost evaluates per-minute, per-kilometer, smart in that
\* order and returns the accepted plan with the lowest TotalCost; among
\* accepted plans sharing the lowest TotalCost, the first evaluated wins.
C1_CheapestFirstSeen ==
    CostCalled =>
        /\ Len(evaluated) = 3
        /\ evaluated[1].modelName = "per-minute"
        /\ evaluated[1].pricing = pricing.PricingPerMinute
        /\ evaluated[2].modelName = "per-kilometer"
        /\ evaluated[2].pricing = pricing.PricingPerKilometer
        /\ evaluated[3].modelName = "smart"
        /\ evaluated[3].pricing = pricing.SmartPricing
        /\ \A i \in Accepted : evaluated[i].plan.PricingModel = evaluated[i].modelName
        /\ Accepted # {} =>
              \E i \in Accepted :
                  /\ cost.plan = evaluated[i].plan
                  /\ \A j \in Accepted :
                        /\ evaluated[i].plan.TotalCost <= evaluated[j].plan.TotalCost
                        /\ j < i => evaluated[i].plan.TotalCost
                                       < evaluated[j].plan.TotalCost

\* C1 witness: the lowest total is shared by the per-kilometer and the smart
\* plan, the per-minute plan costs more, and the per-kilometer plan is returned.
C1_Witness ==
    /\ CostCalled
    /\ Accepted = {1, 2, 3}
    /\ evaluated[2].plan.TotalCost = evaluated[3].plan.TotalCost
    /\ evaluated[2].plan.TotalCost < evaluated[1].plan.TotalCost
    /\ cost.plan = evaluated[2].plan

\* C2: calculateCost returns the error "no valid pricing plans found" and no
\* plan exactly when all three evaluations returned nil; otherwise it returns
\* a plan and no error.
C2_ErrorIffAllRejected ==
    CostCalled =>
        /\ (cost.err = NoPlansError /\ cost.plan = Nil) <=> (Accepted = {})
        /\ Accepted # {} => (cost.plan # Nil /\ cost.err = NoError)

C2_Witness ==
    /\ CostCalled
    /\ Len(evaluated) = 3
    /\ Accepted = {}
    /\ cost.err = NoPlansError
    /\ cost.plan = Nil

\* Some item of the geozone with fencing type "parking", of whatever model
\* type, has a polygon containing the location.
InsideSomeParkingPolygon(l, g) ==
    \E k \in 1..Len(g.Items) :
        /\ g.Items[k].GeofencingType = "parking"
        /\ \E n \in 1..Len(g.Items[k].Geom.Polygons) : l.Lat \in g.Items[k].Geom.Polygons[n]

\* C3: for a non-empty journey, when the geozone is present and the final
\* leg's end is inside no parking polygon, every evaluation returns nil and
\* calculateCost returns an error.
C3_EndOutsideRejected ==
    (evaluated # <<>> /\ NonEmptyJourney /\ geozone # Nil
        /\ ~InsideSomeParkingPolygon(FinalLocation, geozone)) =>
        /\ Accepted = {}
        /\ CostCalled => (cost.err # NoError /\ cost.plan = Nil)

\* C3 witness: calculateCost ran with a geozone that has a car parking
\* polygon, the journey ends outside it, and the call failed.
C3_Witness ==
    /\ CostCalled
    /\ NonEmptyJourney
    /\ geozone # Nil
    /\ InsideSomeParkingPolygon([Lat |-> 2], geozone)
    /\ ~InsideSomeParkingPolygon(FinalLocation, geozone)
    /\ Accepted = {}
    /\ cost.err = NoPlansError

UncappedSum(plan) ==
    plan.CostBreakdown.UnlockFee + plan.CostBreakdown.BookingCost
        + plan.CostBreakdown.TravelCost + plan.CostBreakdown.PauseCost

\* C4: for every returned plan, with S the sum of unlock fee, booking, travel
\* and pause cost and C = DayCapPrice/1000: TotalCost = C when S > C and
\* TotalCost = S when S <= C, so TotalCost <= C.
C4_DayCapIsCeiling ==
    \A i \in Accepted :
        LET S == UncappedSum(evaluated[i].plan)
            C == charge(1, 1, evaluated[i].pricing.DayCapPrice)
            total == evaluated[i].plan.TotalCost
        IN  /\ S > C => total = C
            /\ S <= C => total = S
            /\ total <= C

\* C4 witness: one call of calculateCost in which one plan was cut down to
\* the cap and another plan stayed strictly below its cap.
C4_Witness ==
    /\ \E i \in Accepted :
          /\ UncappedSum(evaluated[i].plan)
                > charge(1, 1, evaluated[i].pricing.DayCapPrice)
          /\ evaluated[i].plan.TotalCost = charge(1, 1, evaluated[i].pricing.DayCapPrice)
    /\ \E i \in Accepted :
          /\ UncappedSum(evaluated[i].plan)
                < charge(1, 1, evaluated[i].pricing.DayCapPrice)
          /\ evaluated[i].plan.TotalCost = UncappedSum(evaluated[i].plan)

\* The states that hold findClosestVehicle's arguments and result.
ClosestReturned ==
    \/ op = "findClosestVehicle"
    \/ op = "planJourney" /\ pc = "selected"
ClosestPoint == IF op = "planJourney" THEN journey.Legs[1].StartLocation ELSE location
DistanceTo(i) == calculateDistance(ClosestPoint.Lat, vehicles[i].LocationLatitude)

\* C5: findClosestVehicle returns nil for an empty fleet; for a non-empty
\* fleet it returns a fleet member at minimal distance from the point, the
\* one of lowest index among those at minimal distance.
C5_ClosestVehicle ==
    ClosestReturned =>
        /\ Len(vehicles) = 0 => vehicle = Nil
        /\ Len(vehicles) > 0 =>
              \E i \in 1..Len(vehicles) :
                  /\ vehicle = vehicles[i]
                  /\ \A j \in 1..Len(vehicles) :
                        /\ DistanceTo(i) <= DistanceTo(j)
                        /\ j < i => DistanceTo(i) < DistanceTo(j)

\* C5 witness: two vehicles at different places are equally near and the
\* first of them is returned.
C5_Witness ==
    /\ ClosestReturned
    /\ Len(vehicles) >= 2
    /\ vehicles[1] # vehicles[2]
    /\ DistanceTo(1) = DistanceTo(2)
    /\ \A j \in 1..Len(vehicles) : DistanceTo(1) <= DistanceTo(j)
    /\ vehicle = vehicles[1]

\* The geozone is present and none of its items has fencing type "parking"
\* (an empty collection included).
NoParkingItems(g) ==
    /\ g # Nil
    /\ \A k \in 1..Len(g.Items) : g.Items[k].GeofencingType # "parking"

\* C6 as stated: with a geozone that is present but has no parking items,
\* calculateCostForModel does not reject a non-empty journey.
C6_NoParkingItemsNoConstraint ==
    (evaluated # <<>> /\ NonEmptyJourney /\ NoParkingItems(geozone)) =>
        Accepted = Evaluations

\* C6 amended: with a geozone that is present but has no parking items,
\* calculateCostForModel rejects every non-empty journey; only with an absent
\* geozone is no non-empty journey rejected for where its final leg ends.
C6_NoParkingItemsRejectsAll ==
    (evaluated # <<>> /\ NonEmptyJourney) =>
        /\ NoParkingItems(geozone) => Accepted = {}
        /\ geozone = Nil => Accepted = Evaluations

\* C6 witness: calculateCost ran on a non-empty journey with an empty
\* geozone collection and every model was rejected.
C6_Witness ==
    /\ CostCalled
    /\ NonEmptyJourney
    /\ geozone # Nil
    /\ Len(geozone.Items) = 0
    /\ Len(evaluated) = 3
    /\ Accepted = {}

\* C7: isInParkingZone returns false for every point when the geozone is
\* nil and when it has no item of fencing type "parking".
C7_NoParkingItemsNeverInZone ==
    (op = "isInParkingZone" /\ (geozone = Nil \/ NoParkingItems(geozone))) =>
        inZone = FALSE

\* C7 witness: the point lies in the polygon of an item that is not a
\* parking item, and isInParkingZone returned false.
C7_Witness ==
    /\ op = "isInParkingZone"
    /\ NoParkingItems(geozone)
    /\ \E k \in 1..Len(geozone.Items) : GeomContains(geozone.Items[k].Geom, location)
    /\ inZone = FALSE

\* Some item has fencing type "parking", the given model type, and a polygon
\* (or a polygon of its multi-polygon) containing the location.
ParkableFor(l, g, modelType) ==
    /\ g # Nil
    /\ \E k \in 1..Len(g.Items) :
          /\ g.Items[k].GeofencingType = "parking"
          /\ g.Items[k].ModelType = modelType
          /\ g.Items[k].Geom.Type \in {"Polygon", "MultiPolygon"}
          /\ \E n \in 1..Len(g.Items[k].Geom.Polygons) :
                l.Lat \in g.Items[k].Geom.Polygons[n]

\* C8: the membership test of the pricing evaluator agrees with matching the
\* zone items against the model type of the vehicle being priced: with a
\* geozone present, a journey is accepted exactly when its final location is
\* parkable for the vehicle's model type, and a pause is charged without the
\* penalty exactly when the leg's end is parkable for that model type.
C8_MatchesVehicleModelType ==
    (evaluated # <<>> /\ NonEmptyJourney) =>
        /\ geozone # Nil =>
              \A i \in Evaluations :
                  (evaluated[i].plan # Nil)
                      <=> ParkableFor(FinalLocation, geozone, vehicle.Model.Type)
        /\ \A k \in 1..Len(journey.Legs) :
              isInParkingZone(journey.Legs[k].EndLocation, geozone)
                  <=> ParkableFor(journey.Legs[k].EndLocation, geozone,
                                  vehicle.Model.Type)

\* C8 witness: planJourney priced a journey whose final location lies in a
\* parking polygon of another model type only, and the journey was rejected.
C8_Witness ==
    /\ op = "planJourney"
    /\ CostCalled
    /\ geozone # Nil
    /\ \E t \in ModelTypes :
          t # vehicle.Model.Type /\ ParkableFor(FinalLocation, geozone, t)
    /\ ~ParkableFor(FinalLocation, geozone, vehicle.Model.Type)
    /\ Accepted = {}

\* Sums over the legs of the journey from leg k on, as the claims state them.
RECURSIVE SumDrivingTime(_, _)
SumDrivingTime(legs, k) ==
    IF k > Len(legs) THEN 0
    ELSE calculateDrivingTime(legs[k].StartLocation, legs[k].EndLocation)
            + SumDrivingTime(legs, k + 1)

RECURSIVE SumDistance(_, _)
SumDistance(legs, k) ==
    IF k > Len(legs) THEN 0
    ELSE calculateDistance(legs[k].StartLocation.Lat, legs[k].EndLocation.Lat)
            + SumDistance(legs, k + 1)

TravelMinutes == SumDrivingTime(journey.Legs, 1)
DistanceKm == SumDistance(journey.Legs, 1)
MinuteRule(p) == charge(TravelMinutes, 1, p.MinutePrice)
KilometerRule(p) ==
    charge(Max(0, DistanceKm - p.IncludedKilometers * KmDenom), KmDenom, p.KilometerPrice)

RECURSIVE SumChargedPause(_, _)
SumChargedPause(legs, k) ==
    IF k > Len(legs) THEN 0
    ELSE (IF legs[k].PauseMinutes > 0
          THEN IF ParkableFor(legs[k].EndLocation, geozone, vehicle.Model.Type)
               THEN legs[k].PauseMinutes * MinDenom
               ELSE legs[k].PauseMinutes * 3
          ELSE 0)
            + SumChargedPause(legs, k + 1)

ChargedPauseMinutes == SumChargedPause(journey.Legs, 1)

\* C10: the charged pause minutes are the sum over the legs with pause > 0 of
\* the pause when the leg's end is in a parking zone and of 1.5 times the
\* pause otherwise; the pause cost is that sum times pauseUnitPrice/1000.
C10_PauseCost ==
    \A i \in Accepted :
        evaluated[i].plan.CostBreakdown.PauseCost
            = charge(ChargedPauseMinutes, MinDenom, evaluated[i].pricing.PauseUnitPrice)

\* C10 witness: an accepted two-leg journey with a pause outside the parking
\* zone after the first leg and a pause inside it after the second.
C10_Witness ==
    /\ Accepted # {}
    /\ geozone # Nil
    /\ Len(journey.Legs) = 2
    /\ journey.Legs[1].PauseMinutes > 0
    /\ journey.Legs[2].PauseMinutes > 0
    /\ ~ParkableFor(journey.Legs[1].EndLocation, geozone, vehicle.Model.Type)
    /\ ParkableFor(journey.Legs[2].EndLocation, geozone, vehicle.Model.Type)
    /\ \A i \in Accepted : evaluated[i].plan.CostBreakdown.PauseCost > 0

\* The booking minutes as C11 states them: from leg k on, with the current
\* position at current.
RECURSIVE SumBookingMinutes(_, _, _)
SumBookingMinutes(legs, k, current) ==
    IF k > Len(legs) THEN 0
    ELSE calculateWalkingTime(current, legs[k].StartLocation)
            + SumBookingMinutes(legs, k + 1, legs[k].EndLocation)

BookingMinutes == SumBookingMinutes(journey.Legs, 1, [Lat |-> vehicle.LocationLatitude])

\* C11: the booking minutes are the walking times from the current position
\* (first the vehicle's location, then each leg's end) to each leg's start;
\* the booking cost is max(0, booking minutes - 15) * bookUnitPrice/1000, and
\* is zero when the booking minutes are at most 15.
C11_BookingCost ==
    \A i \in Accepted :
        LET booking == evaluated[i].plan.CostBreakdown.BookingCost
        IN  /\ booking = charge(Max(0, BookingMinutes - 15), 1,
                                evaluated[i].pricing.BookUnitPrice)
            /\ BookingMinutes <= 15 => booking = 0

\* C11 witness: the walk to the first leg and the walk between the two legs
\* are both positive, together exceed 15 minutes, and the excess is charged.
C11_Witness ==
    /\ Accepted # {}
    /\ Len(journey.Legs) = 2
    /\ journey.Legs[1].StartLocation.Lat # vehicle.LocationLatitude
    /\ journey.Legs[2].StartLocation # journey.Legs[1].EndLocation
    /\ BookingMinutes > 15
    /\ \A i \in Accepted : evaluated[i].plan.CostBreakdown.BookingCost > 0

PlanJourneyFailed ==
    pc = "done" /\ ret # Nil /\ ret.plan = Nil /\ ret.err # NoError

\* C12: in planJourney a failed fleet fetch or a failed pricing fetch ends
\* the call with an error and no plan; a failed geozone fetch does not:
\* planning goes on with geozone = nil, and the call only ends through
\* calculateCost, whose result it returns.
C12_FetchFailures ==
    op = "planJourney" =>
        /\ "fetchVehicles failed" \in calls =>
              (PlanJourneyFailed /\ "calculateCost" \notin calls)
        /\ "fetchPricing failed" \in calls =>
              (PlanJourneyFailed /\ "calculateCost" \notin calls)
        /\ "warning" \in calls =>
              /\ geozone = Nil
              /\ pc \in {"zoned", "done"}
              /\ pc = "done" =>
                    /\ "calculateCost" \in calls
                    /\ cost # Nil
                    /\ ret.plan = cost.plan
                    /\ (ret.err = NoError) <=> (cost.err = NoError)

\* C12 witness: the geozone fetch failed and planJourney returned a plan.
C12_Witness ==
    /\ op = "planJourney"
    /\ "warning" \in calls
    /\ pc = "done"
    /\ geozone = Nil
    /\ "calculateCost" \in calls
    /\ ret.plan # Nil
    /\ ret.err = NoError

\* planJourney holds its inputs and is about to run the emptiness checks.
EmptyInputAtCheck ==
    /\ op = "planJourney"
    /\ pc = "fetched"
    /\ (Len(vehicles) = 0 \/ Len(journey.Legs) = 0)

\* Nothing beyond the fleet fetch has been performed.
NothingComputed ==
    /\ calls = {"fetchVehicles"}
    /\ vehicle = Nil
    /\ pricing = Nil
    /\ geozone = Nil
    /\ evaluated = <<>>
    /\ cost = Nil

\* C13: planJourney given an empty fleet or a journey without legs fails at
\* once: its next step returns an error and no plan, with no vehicle
\* selection, no pricing fetch, no geozone fetch and no cost evaluation; and
\* calculateCostForModel returns nil for a journey without legs.
C13_EmptyInputFailsAtOnce ==
    /\ [][EmptyInputAtCheck => (PlanJourneyFailed /\ NothingComputed)']_vars
    /\ []((op = "planJourney" /\ Len(journey.Legs) = 0) =>
            /\ calls \subseteq {"fetchVehicles", "fetchVehicles failed"}
            /\ evaluated = <<>>)
    /\ []((op = "calculateCostForModel" /\ Len(journey.Legs) = 0) =>
            (Len(evaluated) = 1 /\ evaluated[1].plan = Nil))

\* C13 witness: planJourney was given a journey with legs and an empty fleet
\* and returned the "no vehicles available" error with nothing computed.
C13_Witness ==
    /\ op = "planJourney"
    /\ PlanJourneyFailed
    /\ Len(journey.Legs) > 0
    /\ Len(vehicles) = 0
    /\ ret.err = <<"[planJourney] no vehicles available">>
    /\ NothingComputed

\* Some leg before the last ends at a place that is not parkable for the
\* vehicle's model type.
IntermediateLegEndsOutside ==
    \E k \in 1..(Len(journey.Legs) - 1) :
        ~ParkableFor(journey.Legs[k].EndLocation, geozone, vehicle.Model.Type)

\* C14: with a geozone present, a journey whose final leg ends in a parking
\* zone is never rejected, whatever the end points of its other legs; a leg
\* before the last that ends outside has its pause charged 1.5 times; and a
\* non-empty journey is rejected only for its final leg's end point.
C14_OnlyFinalLegRejects ==
    (evaluated # <<>> /\ NonEmptyJourney /\ geozone # Nil) =>
        /\ ParkableFor(FinalLocation, geozone, vehicle.Model.Type) =>
              /\ Accepted = Evaluations
              /\ \A i \in Evaluations :
                    evaluated[i].plan.CostBreakdown.PauseCost
                        = charge(ChargedPauseMinutes, MinDenom,
                                 evaluated[i].pricing.PauseUnitPrice)
        /\ Accepted # Evaluations =>
              ~ParkableFor(FinalLocation, geozone, vehicle.Model.Type)

\* C14 witness: the first leg ends outside the parking zone with a pause, the
\* second leg ends inside it, and every model yields a plan whose pause cost
\* carries the penalty.
C14_Witness ==
    /\ CostCalled
    /\ geozone # Nil
    /\ Len(journey.Legs) = 2
    /\ IntermediateLegEndsOutside
    /\ journey.Legs[1].PauseMinutes > 0
    /\ journey.Legs[2].PauseMinutes = 0
    /\ ParkableFor(FinalLocation, geozone, vehicle.Model.Type)
    /\ Accepted = {1, 2, 3}
    /\ \A i \in Accepted :
          evaluated[i].plan.CostBreakdown.PauseCost
              = charge(journey.Legs[1].PauseMinutes * 3, MinDenom,
                       evaluated[i].pricing.PauseUnitPrice)

Min(a, b) == IF a < b THEN a ELSE b

\* C15: the travel cost of a pricing model of type "smart" is the cheaper of
\* the per-minute charge and the per-kilometer charge.
C15_SmartIsCheaperOfTwo ==
    \A i \in Accepted :
        evaluated[i].pricing.Type = "smart" =>
            evaluated[i].plan.CostBreakdown.TravelCost
                = Min(MinuteRule(evaluated[i].pricing), KilometerRule(evaluated[i].pricing))

\* C16: rejection does not depend on the pricing model: in every call of
\* calculateCost either all three models yield a plan or none does, so the
\* plans slice has 0 or 3 entries.
C16_AllOrNone ==
    CostCalled =>
        /\ Len(evaluated) = 3
        /\ Cardinality(Accepted) \in {0, 3}
        /\ Accepted = {} => cost.plan = Nil
        /\ Accepted # {} => cost.plan \in {evaluated[i].plan : i \in Accepted}

\* C16 witness: three pricing models that differ, one of them with an unknown
\* discriminator, all yield a plan under a present geozone.
C16_Witness ==
    /\ CostCalled
    /\ geozone # Nil
    /\ pricing.PricingPerMinute.Type \notin {"minute", "kilometer", "smart"}
    /\ Cardinality({evaluated[i].plan.TotalCost : i \in Accepted}) = 3
    /\ Accepted = {1, 2, 3}

RECURSIVE SumPauseMinutes(_, _)
SumPauseMinutes(legs, k) ==
    IF k > Len(legs) THEN 0
    ELSE legs[k].PauseMinutes + SumPauseMinutes(legs, k + 1)

\* C17: with geozone = nil, after a failed geozone fetch included, no
\* non-empty journey is rejected and the charged pause minutes are 1.5 times
\* the sum of the legs' pause minutes.
C17_NilGeozoneChargesPenalty ==
    (evaluated # <<>> /\ NonEmptyJourney /\ geozone = Nil) =>
        /\ Accepted = Evaluations
        /\ \A i \in Evaluations :
              evaluated[i].plan.CostBreakdown.PauseCost
                  = charge(3 * SumPauseMinutes(journey.Legs, 1), MinDenom,
                           evaluated[i].pricing.PauseUnitPrice)

\* C17 witness: the geozone fetch failed, the journey has pauses, and every
\* model yields a plan with a positive pause cost.
C17_Witness ==
    /\ op = "planJourney"
    /\ "warning" \in calls
    /\ CostCalled
    /\ geozone = Nil
    /\ Len(journey.Legs) = 2
    /\ \A k \in 1..2 : journey.Legs[k].PauseMinutes > 0
    /\ Accepted = {1, 2, 3}
    /\ \A i \in Accepted : evaluated[i].plan.CostBreakdown.PauseCost > 0

====
